---- MODULE Spec2Model ----
(***************************************************************************)
(* devcontainer_enter.py: discovery of running devcontainers, selection,   *)
(* marker-based one-time provisioning and interactive shell attachment.    *)
(*                                                                         *)
(* One invocation of the program is a process p.  Every backend call       *)
(* (docker ps / inspect / exec / cp) is one atomic step whose outcome is   *)
(* chosen by the environment.  Strings are sequences of one-character      *)
(* strings.  The durable state is the file system of each container.       *)
(***************************************************************************)
EXTENDS Integers, Sequences, FiniteSets, TLC

VARIABLES
  proc,        \* the state of each invocation of the program
  files,       \* the paths that exist in each container
  lastRc,      \* history: the last run of the script in each container
  okSpecs,     \* history: the marker specs whose script run exited with 0
  forcedSeen,  \* history: some invocation provisioned with --force-post
  pure         \* the argument and result of a function applied on its own

vars == <<proc, files, lastRc, okSpecs, forcedSeen, pure>>

(* ------------------------------ bounds --------------------------------- *)
NumContainers == 3
MaxRows == 3
MaxLabels == 1
MaxEnv == 1
MaxPath == 3

\* "no value" for texts, paths, container ids and exit statuses
None == "None"
NoPath == <<>>
NoContainer == 0
NoRc == 0 - 1

Procs == {"p1", "p2"}
MainProc == "p1"
Containers == 1..NumContainers

(* ------------------------------ strings -------------------------------- *)
UpperChars == <<"A","B","C","D","E","F","G","H","I","J","K","L","M",
                "N","O","P","Q","R","S","T","U","V","W","X","Y","Z">>
LowerChars == <<"a","b","c","d","e","f","g","h","i","j","k","l","m",
                "n","o","p","q","r","s","t","u","v","w","x","y","z">>

LowerChar(ch) ==
  IF \E i \in 1..26 : UpperChars[i] = ch
    THEN LowerChars[CHOOSE i \in 1..26 : UpperChars[i] = ch]
    ELSE ch

UpperChar(ch) ==
  IF \E i \in 1..26 : LowerChars[i] = ch
    THEN UpperChars[CHOOSE i \in 1..26 : LowerChars[i] = ch]
    ELSE ch

lower(s) == [i \in 1..Len(s) |-> LowerChar(s[i])]
upper(s) == [i \in 1..Len(s) |-> UpperChar(s[i])]

IsSpace(ch) == ch \in {" ", "\t", "\n"}

RECURSIVE lstrip(_)
lstrip(s) == IF s # <<>> /\ IsSpace(Head(s)) THEN lstrip(Tail(s)) ELSE s

RECURSIVE rstrip(_)
rstrip(s) ==
  IF s # <<>> /\ IsSpace(s[Len(s)]) THEN rstrip(SubSeq(s, 1, Len(s) - 1)) ELSE s

strip(s) == rstrip(lstrip(s))

\* the text t occurs in s at position i
OccursAt(s, t, i) ==
  /\ i >= 1
  /\ i + Len(t) - 1 <= Len(s)
  /\ SubSeq(s, i, i + Len(t) - 1) = t

startswith(s, t) == OccursAt(s, t, 1)
contains(s, t) == \E i \in 1..(Len(s) + 1) : OccursAt(s, t, i)

(* ----------------------------- classifier ------------------------------ *)
DEVCONTAINER == <<"d","e","v","c","o","n","t","a","i","n","e","r">>
VSCH == <<"v","s","c","h">>
Separators == {".", "_", "-"}

\* (?:^|[._-])word(?:[._-]|$), case-insensitive
TokenSearch(s, word) ==
  LET t == lower(s)
  IN \E i \in 1..Len(t) :
       /\ OccursAt(t, word, i)
       /\ (i = 1 \/ t[i - 1] \in Separators)
       /\ (i + Len(word) - 1 = Len(t) \/ t[i + Len(word)] \in Separators)

DEV_LABEL_KEY_PATTERNS(k) ==
  \/ startswith(lower(k), DEVCONTAINER \o <<".">>)
  \/ TokenSearch(k, DEVCONTAINER)
  \/ TokenSearch(k, VSCH)

\* variant: the pattern without its anchor, r"vsc-"
NAME_PATTERNS_unanchored(name) == contains(lower(name), <<"v","s","c","-">>)

NAME_PATTERNS(name) == startswith(lower(name), <<"v","s","c","-">>)

DEV_ENV_VAR == <<"D","E","V","C","O","N","T","A","I","N","E","R","=","t","r","u","e">>

\* labels is a function from keys to values, env a sequence of entries
is_devcontainer(labels, name, env) ==
  \/ \E k \in DOMAIN labels : DEV_LABEL_KEY_PATTERNS(k)
  \/ \E k \in DOMAIN labels : contains(lower(labels[k]), DEVCONTAINER)
  \/ NAME_PATTERNS(name)
  \/ \E i \in 1..Len(env) : upper(strip(env[i])) = upper(DEV_ENV_VAR)

(* ------------------- the containers the backend runs ------------------- *)
NoLabels == [k \in {} |-> <<>>]

Profiles == <<
  [name   |-> <<"V","s","c","-","a","p","p">>,
   labels |-> NoLabels,
   env    |-> <<>>,
   home   |-> "/home/vscode",
   bash   |-> TRUE],
  [name   |-> <<"w","e","b">>,
   labels |-> [k \in {<<"d","e","v","c","o","n","t","a","i","n","e","r",".","i","d">>}
                 |-> <<"w">>],
   env    |-> <<>>,
   home   |-> "",
   bash   |-> FALSE],
  [name   |-> <<"d","b">>,
   labels |-> [k \in {<<"r","o","l","e">>} |-> <<"v","s","c","h","e","m","a">>],
   env    |-> << <<"P","A","T","H","=","/","b","i","n">> >>,
   home   |-> "/root",
   bash   |-> TRUE],
  [name   |-> <<"x","v","s","c","-","1">>,
   labels |-> NoLabels,
   env    |-> << <<"D","E","V","C","O","N","T","A","I","N","E","R","=","t","r","u","e","1">> >>,
   home   |-> "/home/ci",
   bash   |-> TRUE]
>>

Meta(c) == Profiles[((c - 1) % Len(Profiles)) + 1]

\* what `docker ps` can print: running containers, each once, in any order
Listings ==
  { s \in UNION { [1..n -> Containers] : n \in 0..MaxRows } :
      \A i, j \in 1..Len(s) : i # j => s[i] # s[j] }

(* ------------------------- selection argument -------------------------- *)
Digits == <<"0","1","2","3","4","5","6","7","8","9">>
IsDigit(ch) == \E i \in 1..10 : Digits[i] = ch
DigitVal(ch) == (CHOOSE i \in 1..10 : Digits[i] = ch) - 1

RECURSIVE DigitsValue(_, _)
DigitsValue(s, acc) ==
  IF s = <<>> THEN acc ELSE DigitsValue(Tail(s), acc * 10 + DigitVal(Head(s)))

\* variant: a text that is no integer is taken as 0 (except ValueError: idx = 0)
int_defaulting(s) ==
  LET t == strip(s)
      signed == t # <<>> /\ Head(t) \in {"+", "-"}
      u == IF signed THEN Tail(t) ELSE t
  IN IF u = <<>> \/ \E i \in 1..Len(u) : ~IsDigit(u[i])
       THEN [ValueError |-> FALSE, value |-> 0]
       ELSE [ValueError |-> FALSE,
             value |-> IF signed /\ Head(t) = "-" THEN 0 - DigitsValue(u, 0)
                                                   ELSE DigitsValue(u, 0)]

\* Python's int(str): surrounding whitespace, an optional sign, decimal digits;
\* ValueError is TRUE when the text is no integer
int(s) ==
  LET t == strip(s)
      signed == t # <<>> /\ Head(t) \in {"+", "-"}
      u == IF signed THEN Tail(t) ELSE t
  IN IF u = <<>> \/ \E i \in 1..Len(u) : ~IsDigit(u[i])
       THEN [ValueError |-> TRUE, value |-> 0]
       ELSE [ValueError |-> FALSE,
             value |-> IF signed /\ Head(t) = "-" THEN 0 - DigitsValue(u, 0)
                                                   ELSE DigitsValue(u, 0)]

\* the positional argument: absent (None), or the text typed by the user
NoSelection == [is_none |-> TRUE, text |-> <<>>]
Typed(text) == [is_none |-> FALSE, text |-> text]

Selections ==
  { NoSelection, Typed(<<"1">>), Typed(<<"2">>), Typed(<<" ","3">>), Typed(<<"0">>),
    Typed(<<"-","1">>), Typed(<<"a","b","c">>) }

\* --marker: the default (under the container's home) or an absolute path
MarkerSpecs ==
  { [tilde |-> TRUE,  rest |-> "/.dc-post-setup-done"],
    [tilde |-> FALSE, rest |-> "/var/dc/done"] }

DestSpec == [tilde |-> TRUE, rest |-> "/.dc-postcommand.sh"]

(* ---------------------- outcomes of the backend ------------------------ *)
\* exit statuses a backend command can end with
ExecRcs == {0, 1}
CpRcs == {0, 1, 125}
ScriptRcs == {0, 1}
ShellRcs == {0, 130}

\* operations of run_post_script_if_needed on the container
ProvisionOps == {"home", "check", "probe", "dirname", "mkdir", "cp", "run", "write"}

(* --------------------------- process state ----------------------------- *)
DefaultMarker == [tilde |-> TRUE, rest |-> "/.dc-post-setup-done"]
NoRun == [marker_spec |-> DefaultMarker, result |-> None]

NoPure == [fn |-> None]

InitProc ==
  [pc |-> "idle",
   selection |-> NoSelection, skip_post |-> FALSE, force_post |-> FALSE,
   marker_spec |-> DefaultMarker,
   host_is_file |-> FALSE,
   rows |-> <<>>, i |-> 0, devcs |-> <<>>,
   branch |-> None, cid |-> NoContainer,
   marker |-> NoPath, file_exists |-> FALSE, existed |-> FALSE,
   shell |-> None, dest_script |-> NoPath, parent |-> None,
   cp_rc |-> NoRc, rc |-> NoRc, session_rc |-> NoRc,
   status |-> NoRc, cause |-> None,
   ops |-> {}, files0 |-> {}, after_fail |-> FALSE, after_ok |-> FALSE]

Init ==
  /\ proc = [p \in Procs |-> InitProc]
  /\ files = [c \in Containers |-> {}]
  /\ lastRc = [c \in Containers |-> NoRun]
  /\ okSpecs = [c \in Containers |-> {}]
  /\ forcedSeen = FALSE
  /\ pure = NoPure

Set(p, pr) == proc' = [proc EXCEPT ![p] = pr]

\* the process ends with an exit status
Exit(pr, status, cause) ==
  [pr EXCEPT !.pc = "exited", !.status = status, !.cause = cause]

\* an exception nobody catches: traceback, exit status 1
Raise(pr, cause) == Exit(pr, 1, cause)

Did(pr, op) == [pr EXCEPT !.ops = @ \cup {<<op, pr.cid>>}]

OpsOf(pr) == { o[1] : o \in pr.ops }

(* ------------------------------ main: start ---------------------------- *)
\* a new invocation of the program.  The command line is fixed from here on;
\* each argument is drawn by the step that first reads it.
Start(p) ==
  /\ proc[p].pc \in {"idle", "exited"}
  /\ Set(p, [InitProc EXCEPT !.pc = "ps"])
  /\ UNCHANGED <<files, lastRc, okSpecs, forcedSeen, pure>>

(* ------------------------------ discovery ------------------------------ *)
\* docker_ps_rows, and the head of the loop of list_devcontainers
docker_ps_rows(p) ==
  /\ proc[p].pc = "ps"
  /\ \E out \in {"ok", "fail", "nobinary"} :
       \/ /\ out = "nobinary"
          /\ Set(p, Exit(proc[p], 127, "nobinary"))
       \/ /\ out # "nobinary"
          /\ \E listing \in Listings :
               LET rows == IF out = "ok" THEN listing ELSE <<>>
               IN Set(p, [proc[p] EXCEPT !.rows = rows, !.i = 1,
                            !.pc = IF rows = <<>> THEN "select" ELSE "inspect"])
  /\ UNCHANGED <<files, lastRc, okSpecs, forcedSeen, pure>>

\* what docker_inspect does with the backend's answer
InspectRaises(out) == out \in {"fail", "empty"}

\* variant: devs.insert(0, ...) instead of devs.append(...)
Retain_front(devs, c) == <<c>> \o devs

\* devs.append({...})
Retain(devs, c) == Append(devs, c)

\* one turn of the loop of list_devcontainers: docker_inspect, is_devcontainer
list_devcontainers(p) ==
  LET pr == proc[p]
      c == pr.rows[pr.i]
      last == pr.i = Len(pr.rows)
  IN /\ pr.pc = "inspect"
     /\ \E out \in {"ok", "fail", "empty"} :
          IF InspectRaises(out)
            THEN Set(p, Raise(pr, "inspect"))
            ELSE LET info == [labels |-> Meta(c).labels, env |-> Meta(c).env]
                     devs == IF is_devcontainer(info.labels, Meta(c).name, info.env)
                               THEN Retain(pr.devcs, c) ELSE pr.devcs
                 IN Set(p, [pr EXCEPT !.devcs = devs,
                              !.i = IF last THEN 0 ELSE pr.i + 1,
                              !.pc = IF last THEN "select" ELSE "inspect"])
     /\ UNCHANGED <<files, lastRc, okSpecs, forcedSeen, pure>>

(* ------------------------------ selection ------------------------------ *)
\* where main goes once a container is selected
\* variant: args.skip_post is not consulted
Provisions_always(skip_post) == TRUE

\* `if not args.skip_post:`
Provisions(skip_post) == ~skip_post

Selected(pr, branch, c) ==
  [pr EXCEPT !.branch = branch, !.cid = c, !.files0 = files[c],
             !.pc = IF Provisions(pr.skip_post) THEN "post" ELSE "shell_probe"]

\* variant: the first candidate is taken whenever there is one
AutoSelect_first(is_none, n) == is_none /\ n >= 1

\* `if args.selection is None and len(devcs) == 1:`
AutoSelect(is_none, n) == is_none /\ n = 1

\* variant: the lower limit is 0, `if idx < 0 or idx > len(devcs):`
OutOfRange_zero(idx, n) == idx < 0 \/ idx > n

\* `if idx < 1 or idx > len(devcs):`
OutOfRange(idx, n) == idx < 1 \/ idx > n

\* devcs[idx - 1] with Python's indexing: a negative index counts from the end
Pick(devcs, idx) ==
  LET j == idx - 1 IN IF j >= 0 THEN devcs[j + 1] ELSE devcs[Len(devcs) + j + 1]

\* main after list_devcontainers: args.selection and args.skip_post are read
main_select(p) ==
  /\ proc[p].pc = "select"
  /\ \E sel \in Selections, skip \in BOOLEAN :
       LET pr == [proc[p] EXCEPT !.selection = sel, !.rows = <<>>]
           sk == [pr EXCEPT !.skip_post = skip]
           idx == int(sel.text)
       IN Set(p,
            IF AutoSelect(sel.is_none, Len(pr.devcs))
              THEN Selected(sk, "auto", pr.devcs[0 + 1])
            ELSE IF sel.is_none THEN Exit(pr, 0, "list")
            ELSE IF pr.devcs = <<>> THEN Exit(pr, 1, "nocand")
            ELSE IF idx.ValueError THEN Exit(pr, 2, "nan")
            ELSE IF OutOfRange(idx.value, Len(pr.devcs)) THEN Exit(pr, 3, "range")
            ELSE Selected(sk, "explicit", Pick(pr.devcs, idx.value)))
  /\ UNCHANGED <<files, lastRc, okSpecs, forcedSeen, pure>>

(* ----------------------------- provisioning --------------------------- *)
\* `home or "/root"`
HomeOr(home) == IF home = "" THEN "/root" ELSE home

\* run_out(cmd) with check=True re-raises CalledProcessError on a nonzero status
run_out_raises(rc) == rc # 0

\* the state before any invocation, with no function applied on its own
Idle ==
  /\ proc = [p \in Procs |-> InitProc]
  /\ files = [c \in Containers |-> {}]
  /\ lastRc = [c \in Containers |-> NoRun]
  /\ okSpecs = [c \in Containers |-> {}]
  /\ forcedSeen = FALSE

\* variant: the host script is never looked for
NoHostScript_unchecked(is_file) == FALSE

\* `if not host_path.is_file(): return`
NoHostScript(is_file) == ~is_file

\* variant: the marker is tested whatever --force-post says
ChecksMarker_always(force) == TRUE

\* `not force and container_file_exists(...)`: the test runs only when not forced
ChecksMarker(force) == ~force

\* variant: `force and exists`, the negation lost
AlreadySetUp_unnegated(force, exists) == force /\ exists

\* variant: `not force`, the result of the test lost
AlreadySetUp_untested(force, exists) == ~force

\* the idempotence gate: "Already set up", return
AlreadySetUp(force, exists) == ~force /\ exists

MarkerResolved(pr, path) ==
  [pr EXCEPT !.marker = path, !.existed = (path \in files[pr.cid]),
             !.pc = IF ChecksMarker(pr.force_post) THEN "check" ELSE "probe"]

\* run_post_script_if_needed up to the resolution of the marker path; the call
\* passes args.marker and args.force_post, is_file is the host's answer
run_post_script_if_needed(p) ==
  LET pr == proc[p]
  IN /\ pr.pc = "post"
     /\ \E is_file \in BOOLEAN, force \in BOOLEAN, ms \in MarkerSpecs :
          LET pr1 == [Did(pr, "post") EXCEPT
                        !.force_post = force,
                        !.marker_spec = ms,
                        !.host_is_file = is_file,
                        !.files0 = files[pr.cid],
                        !.after_fail = (lastRc[pr.cid] = [marker_spec |-> ms,
                                                          result |-> "fail"]),
                        !.after_ok = (ms \in okSpecs[pr.cid])]
          IN /\ Set(p,
               IF NoHostScript(is_file) THEN [pr1 EXCEPT !.pc = "shell_probe"]
               ELSE IF ms.tilde THEN [pr1 EXCEPT !.pc = "home_marker"]
               ELSE MarkerResolved(pr1, <<"", ms.rest>>))
          /\ forcedSeen' = (forcedSeen \/ force)
     /\ UNCHANGED <<files, lastRc, okSpecs, pure>>

\* container_home, called by resolve_container_path for the marker and for the
\* staged script
container_home(p) ==
  LET pr == proc[p]
      home == HomeOr(Meta(pr.cid).home)
  IN /\ pr.pc \in {"home_marker", "home_dest"}
     /\ \E rc \in ExecRcs :
          Set(p,
            IF run_out_raises(rc) THEN Raise(Did(pr, "home"), "home")
            ELSE IF pr.pc = "home_marker"
              THEN MarkerResolved(Did(pr, "home"), <<home, pr.marker_spec.rest>>)
              ELSE [Did(pr, "home") EXCEPT !.dest_script = <<home, DestSpec.rest>>,
                                           !.pc = "dirname"])
     /\ UNCHANGED <<files, lastRc, okSpecs, forcedSeen, pure>>

\* the status of `[ -f path ]` run in the container through docker exec
TestRc(present, fault) == IF present /\ ~fault THEN 0 ELSE 1

\* `return rc == 0`
rc_ok(rc) == rc = 0

container_file_exists(p) ==
  LET pr == proc[p]
      present == pr.marker \in files[pr.cid]
  IN /\ pr.pc = "check"
     /\ \E fault \in BOOLEAN :
          LET exists == rc_ok(TestRc(present, fault))
          IN Set(p, [Did(pr, "check") EXCEPT
                       !.file_exists = exists, !.existed = present,
                       !.pc = IF AlreadySetUp(pr.force_post, exists)
                                THEN "shell_probe" ELSE "probe"])
     /\ UNCHANGED <<files, lastRc, okSpecs, forcedSeen, pure>>

\* container_supports("bash", cid): in provisioning and before the attachment
container_supports(p) ==
  LET pr == proc[p]
  IN /\ pr.pc \in {"probe", "shell_probe"}
     /\ \E fault \in BOOLEAN :
          LET shell == IF rc_ok(TestRc(Meta(pr.cid).bash, fault)) THEN "bash" ELSE "sh"
          IN Set(p, [Did(pr, pr.pc) EXCEPT
                       !.shell = shell,
                       !.pc = IF pr.pc = "probe"
                                THEN (IF DestSpec.tilde THEN "home_dest" ELSE "dirname")
                                ELSE "attach"])
     /\ UNCHANGED <<files, lastRc, okSpecs, forcedSeen, pure>>

\* docker_cp_to: `dirname` of the destination (run_out, check=True)
docker_cp_to_dirname(p) ==
  LET pr == proc[p]
  IN /\ pr.pc = "dirname"
     /\ \E rc \in ExecRcs :
          Set(p,
            IF run_out_raises(rc) THEN Raise(Did(pr, "dirname"), "dirname")
            ELSE [Did(pr, "dirname") EXCEPT !.parent = pr.dest_script[1],
                                            !.pc = "mkdir"])
     /\ UNCHANGED <<files, lastRc, okSpecs, forcedSeen, pure>>

\* docker_cp_to: `mkdir -p parent`, status ignored
docker_cp_to_mkdir(p) ==
  LET pr == proc[p]
  IN /\ pr.pc = "mkdir"
     /\ \E rc \in ExecRcs : Set(p, [Did(pr, "mkdir") EXCEPT !.pc = "cp"])
     /\ UNCHANGED <<files, lastRc, okSpecs, forcedSeen, pure>>

\* variant: the status of docker cp is ignored
CopyDone_ignored(pr, rc) == [pr EXCEPT !.cp_rc = rc, !.pc = "run"]

\* docker_cp_to after docker cp returned rc
CopyDone(pr, rc) ==
  IF rc # 0 THEN Exit([pr EXCEPT !.cp_rc = rc], rc, "cp")
            ELSE [pr EXCEPT !.cp_rc = rc, !.pc = "run"]

\* docker_cp_to: docker cp of the host script to the staging path
docker_cp_to(p) ==
  LET pr == proc[p]
  IN /\ pr.pc = "cp"
     /\ \E rc \in CpRcs :
          /\ Set(p, CopyDone(Did(pr, "cp"), rc))
          /\ files' = IF rc = 0
                        THEN [files EXCEPT ![pr.cid] = @ \cup {pr.dest_script}]
                        ELSE files
     /\ UNCHANGED <<lastRc, okSpecs, forcedSeen, pure>>

\* variant: the marker is written whatever the script returned
ScriptDone_unchecked(pr, rc) == [pr EXCEPT !.rc = rc, !.pc = "write"]

\* variant: a failing script ends the program with the script's status
ScriptDone_fatal(pr, rc) ==
  IF rc # 0 THEN Exit([pr EXCEPT !.rc = rc], rc, "script")
            ELSE [pr EXCEPT !.rc = rc, !.pc = "write"]

\* run_post_script_if_needed after the script returned rc
ScriptDone(pr, rc) ==
  IF rc # 0 THEN [pr EXCEPT !.rc = rc, !.pc = "shell_probe"]
            ELSE [pr EXCEPT !.rc = rc, !.pc = "write"]

\* chmod +x and run the staged script with the chosen shell
run_script(p) ==
  LET pr == proc[p]
  IN /\ pr.pc = "run"
     /\ \E rc \in ScriptRcs :
          /\ Set(p, ScriptDone(Did(pr, "run"), rc))
          /\ lastRc' = [lastRc EXCEPT ![pr.cid] =
                          [marker_spec |-> pr.marker_spec,
                           result |-> IF rc = 0 THEN "ok" ELSE "fail"]]
          /\ okSpecs' = IF rc = 0
                          THEN [okSpecs EXCEPT ![pr.cid] = @ \cup {pr.marker_spec}]
                          ELSE okSpecs
     /\ UNCHANGED <<files, forcedSeen, pure>>

\* the effect of `: > marker` run in the container with status rc
Touched(fs, path, rc) == IF rc = 0 THEN fs \cup {path} ELSE fs

\* the marker write; its status is ignored, then "Setup complete" and return
write_marker(p) ==
  LET pr == proc[p]
  IN /\ pr.pc = "write"
     /\ \E rc \in ExecRcs :
          /\ Set(p, [Did(pr, "write") EXCEPT !.pc = "shell_probe"])
          /\ files' = [files EXCEPT ![pr.cid] = Touched(@, pr.marker, rc)]
     /\ UNCHANGED <<lastRc, okSpecs, forcedSeen, pure>>

(* ------------------------------ attachment ----------------------------- *)
\* variant: the shell's status is dropped, main returns normally
SysExitShell_dropped(pr, rc) == Exit([pr EXCEPT !.session_rc = rc], 0, "attach")

\* `sys.exit(exec_interactive_shell(cid))`
SysExitShell(pr, rc) == Exit([pr EXCEPT !.session_rc = rc], rc, "attach")

\* subprocess.call of the interactive shell, then sys.exit with its status
exec_interactive_shell(p) ==
  LET pr == proc[p]
  IN /\ pr.pc = "attach"
     /\ \E rc \in ShellRcs : Set(p, SysExitShell(Did(pr, "attach"), rc))
     /\ UNCHANGED <<files, lastRc, okSpecs, forcedSeen, pure>>

(* ---------------------------- specification ---------------------------- *)
Step(p) ==
  \/ Start(p)
  \/ docker_ps_rows(p)
  \/ list_devcontainers(p)
  \/ main_select(p)
  \/ run_post_script_if_needed(p)
  \/ container_home(p)
  \/ container_file_exists(p)
  \/ container_supports(p)
  \/ docker_cp_to_dirname(p)
  \/ docker_cp_to_mkdir(p)
  \/ docker_cp_to(p)
  \/ run_script(p)
  \/ write_marker(p)
  \/ exec_interactive_shell(p)

\* invocations follow one another: one process at a time
Next == Step(MainProc)

Spec == Init /\ [][Next]_vars

(* ---------------------- two interleaved invocations -------------------- *)
\* the invocations considered together: no selection argument, no flag, the
\* default marker, the host script present, the backend listing container 1
RaceScope ==
  \A p \in Procs :
    LET pr == proc[p]
    IN /\ pr.rows \in {<<>>, <<1>>}
       /\ pr.devcs \in {<<>>, <<1>>}
       /\ pr.selection.is_none /\ ~pr.skip_post /\ ~pr.force_post
       /\ pr.marker_spec = DefaultMarker
       /\ "post" \in OpsOf(pr) => pr.host_is_file

\* a step of either invocation: nothing orders the two
NextRace == \E p \in Procs : Step(p) /\ RaceScope'

SpecRace == Init /\ [][NextRace]_vars

(* ------------------- is_devcontainer applied on its own ---------------- *)
LabelKeys ==
  { <<"d","e","v","c","o","n","t","a","i","n","e","r",".","i","d">>,
    <<"D","e","v","C","o","n","t","a","i","n","e","r",".","x">>,
    <<"a",".","d","e","v","c","o","n","t","a","i","n","e","r">>,
    <<"m","y","_","d","e","v","c","o","n","t","a","i","n","e","r","-","x">>,
    <<"d","e","v","c","o","n","t","a","i","n","e","r","s">>,
    <<"x","-","V","S","C","H","_","y">>,
    <<"v","s","c","h","e","m","a">>,
    <<"r","o","l","e">>,
    <<>> }

LabelValues ==
  { <<"w">>,
    <<"M","y"," ","D","e","v","C","o","n","t","a","i","n","e","r"," ","i","m","g">>,
    <<"d","e","v","c","o","n","t","a","i","n","e">> }

Names ==
  { <<"v","s","c","-","a">>,
    <<"V","S","C","-","b">>,
    <<"x","v","s","c","-">>,
    <<"v","s","c">>,
    <<"w","e","b">> }

EnvEntries ==
  { <<" ","d","e","v","c","o","n","t","a","i","n","e","r","=","T","R","U","E","\n">>,
    <<"D","E","V","C","O","N","T","A","I","N","E","R","=","t","r","u","e">>,
    <<"D","E","V","C","O","N","T","A","I","N","E","R","=","t","r","u","e","1">>,
    <<"X","D","E","V","C","O","N","T","A","I","N","E","R","=","T","R","U","E">>,
    <<"P","A","T","H","=","/","b","i","n">> }

\* {json .Config.Labels}: mappings with at most MaxLabels keys
LabelMaps ==
  UNION { [ks -> LabelValues] : ks \in { x \in SUBSET LabelKeys : Cardinality(x) <= MaxLabels } }

\* {json .Config.Env}: sequences of at most MaxEnv entries
EnvLists == UNION { [1..n -> EnvEntries] : n \in 0..MaxEnv }

InitClassify ==
  /\ Idle
  /\ \E labels \in LabelMaps, name \in Names, env \in EnvLists :
       pure = [fn |-> "is_devcontainer", labels |-> labels, name |-> name,
               env |-> env, done |-> FALSE, out |-> FALSE]

Classify ==
  /\ pure.fn = "is_devcontainer"
  /\ ~pure.done
  /\ pure' = [pure EXCEPT !.done = TRUE,
                          !.out = is_devcontainer(pure.labels, pure.name, pure.env)]
  /\ UNCHANGED <<proc, files, lastRc, okSpecs, forcedSeen>>

SpecClassify == InitClassify /\ [][Classify]_vars

(* --------------------- sh_quote applied on its own --------------------- *)
RECURSIVE replace(_, _, _)
\* str.replace(old, new) for a one-character old
replace(s, old, new) ==
  IF s = <<>> THEN <<>>
  ELSE (IF Head(s) = old THEN new ELSE <<Head(s)>>) \o replace(Tail(s), old, new)

\* variant: the embedded quotes are left as they are
sh_quote_unescaped(s) == <<"'">> \o s \o <<"'">>

\* "'" + s.replace("'", "'\"'\"'") + "'"
sh_quote(s) == <<"'">> \o replace(s, "'", <<"'", "\"", "'", "\"", "'">>) \o <<"'">>

\* the command strings handed to `sh -lc` in the container
Command(kind, q) ==
  CASE kind = "test"    -> <<"["," ","-","f"," ">> \o q \o <<" ", "]">>
    [] kind = "dirname" -> <<"d","i","r","n","a","m","e"," ">> \o q
    [] kind = "mkdir"   -> <<"m","k","d","i","r"," ","-","p"," ">> \o q
    [] kind = "run"     -> <<"c","h","m","o","d"," ","+","x"," ">> \o q \o <<" ", "&", "&", " ">> \o q
    [] kind = "write"   -> <<":", " ", ">", " ">> \o q
    [] OTHER            -> q

CommandKinds == {"word", "test", "dirname", "mkdir", "run", "write"}

\* the shell's tokens: words and operators
Word(text) == [op |-> FALSE, text |-> text]
Operator(text) == [op |-> TRUE, text |-> text]

\* stands in a word for the result of an expansion ($, ~, * or ?)
Expansion == "expansion"
Unterminated == Operator(<<"unterminated">>)
Blanks == {" ", "\t", "\n"}
OperatorChars == {";", "&", "|", "<", ">", "(", ")"}

\* the reader's state at the start of a command string: mode of quoting, the
\* word being read (cur), whether one is begun (has), the tokens read (acc)
LexStart == [mode |-> "plain", cur |-> <<>>, has |-> FALSE, acc |-> <<>>]

Flushed(st) == IF st.has THEN Append(st.acc, Word(st.cur)) ELSE st.acc

Put(st, x) == [st EXCEPT !.cur = Append(@, x), !.has = TRUE]

Cut(st, tokens, mode) == [mode |-> mode, cur |-> <<>>, has |-> FALSE, acc |-> tokens]

\* an unquoted character
LexPlain(st, ch) ==
  IF ch = "'" THEN [st EXCEPT !.mode = "single", !.has = TRUE]
  ELSE IF ch = "\"" THEN [st EXCEPT !.mode = "double", !.has = TRUE]
  ELSE IF ch = "\\" THEN [st EXCEPT !.mode = "escape", !.has = TRUE]
  ELSE IF ch \in Blanks THEN Cut(st, Flushed(st), "plain")
  ELSE IF ch \in {"$", "*", "?"} \/ (ch = "~" /\ ~st.has) THEN Put(st, Expansion)
  ELSE IF ch = "&" THEN Cut(st, Flushed(st), "amp")
  ELSE IF ch \in OperatorChars THEN Cut(st, Append(Flushed(st), Operator(<<ch>>)), "plain")
  ELSE Put(st, ch)

\* token recognition of the POSIX shell, one character: quoting by ', by "
\* (where \ keeps its meaning before $, " and \ only) and by \
LexChar(st, ch) ==
  IF st.mode = "single"
    THEN IF ch = "'" THEN [st EXCEPT !.mode = "plain"] ELSE Put(st, ch)
  ELSE IF st.mode = "double"
    THEN IF ch = "\"" THEN [st EXCEPT !.mode = "plain"]
         ELSE IF ch = "\\" THEN [st EXCEPT !.mode = "double_escape"]
         ELSE IF ch = "$" THEN Put(st, Expansion)
         ELSE Put(st, ch)
  ELSE IF st.mode = "double_escape"
    THEN IF ch \in {"$", "\"", "\\"} THEN [Put(st, ch) EXCEPT !.mode = "double"]
         ELSE [Put(Put(st, "\\"), ch) EXCEPT !.mode = "double"]
  ELSE IF st.mode = "escape" THEN [Put(st, ch) EXCEPT !.mode = "plain"]
  ELSE IF st.mode = "amp"
    THEN IF ch = "&" THEN Cut(st, Append(st.acc, Operator(<<"&", "&">>)), "plain")
         ELSE LexPlain(Cut(st, Append(st.acc, Operator(<<"&">>)), "plain"), ch)
  ELSE LexPlain(st, ch)

\* the tokens at the end of the command string
LexEnd(st) ==
  IF st.mode = "plain" THEN Flushed(st)
  ELSE IF st.mode = "amp" THEN Append(st.acc, Operator(<<"&">>))
  ELSE IF st.mode = "escape" THEN Append(st.acc, Word(Append(st.cur, "\\")))
  ELSE Append(Flushed(st), Unterminated)

RECURSIVE Lex(_, _, _)
\* the characters of text from the i-th on, read in state st
Lex(text, i, st) ==
  IF st.mode = "end" \/ i > Len(text) THEN LexEnd(st)
  ELSE Lex(text, i + 1, LexChar(st, text[i]))

\* what `sh -lc cmd` reads: the tokens of the command string
ShParse(cmd) == Lex(cmd, 1, LexStart)

QuoteChars == {"a", "/", "'", "\"", " ", "$", "\\", "*"}

\* the paths given to sh_quote: texts of at most MaxPath characters
Paths == UNION { [1..n -> QuoteChars] : n \in 0..MaxPath }

InitQuote ==
  /\ Idle
  /\ \E s \in Paths, kind \in CommandKinds :
       pure = [fn |-> "sh_quote", s |-> s, kind |-> kind, pc |-> "arg",
               cmd |-> <<>>, words |-> <<>>]

\* the f-string: the quoted path is put into the command string
Quote ==
  /\ pure.fn = "sh_quote"
  /\ pure.pc = "arg"
  /\ pure' = [pure EXCEPT !.pc = "quoted", !.cmd = Command(pure.kind, sh_quote(pure.s))]
  /\ UNCHANGED <<proc, files, lastRc, okSpecs, forcedSeen>>

\* docker exec ... sh -lc cmd: the container's shell reads the command string
sh_lc ==
  /\ pure.fn = "sh_quote"
  /\ pure.pc = "quoted"
  /\ pure' = [pure EXCEPT !.pc = "parsed", !.words = ShParse(pure.cmd)]
  /\ UNCHANGED <<proc, files, lastRc, okSpecs, forcedSeen>>

NextQuote == Quote \/ sh_lc

SpecQuote == InitQuote /\ [][NextQuote]_vars

(* ------------------------------- claims -------------------------------- *)
\* run_post_script_if_needed was entered and has returned to main, which goes on
\* to exec_interactive_shell
Returned(pr) ==
  /\ <<"post", pr.cid>> \in pr.ops
  /\ \/ pr.pc \in {"shell_probe", "attach"}
     \/ pr.pc = "exited" /\ pr.cause = "attach"

\* C1: idempotence gate.  With the host script present and force false, when
\* the marker file exists in the container and the test run there finds it,
\* the invocation makes no capability probe, no copy, no script run and no
\* marker write, leaves the container's files as they were, and
\* run_post_script_if_needed returns to main.
C1_IdempotenceGate ==
  \A p \in Procs :
    LET pr == proc[p]
    IN (pr.host_is_file /\ ~pr.force_post /\ "check" \in OpsOf(pr)
          /\ pr.existed /\ pr.file_exists)
       => /\ OpsOf(pr) \cap {"probe", "dirname", "mkdir", "cp", "run", "write"} = {}
          /\ files[pr.cid] = pr.files0
          /\ Returned(pr)

C1_Witness ==
  \E p \in Procs :
    LET pr == proc[p]
    IN /\ pr.pc = "exited" /\ pr.cause = "attach"
       /\ pr.host_is_file /\ ~pr.force_post
       /\ "check" \in OpsOf(pr) /\ pr.existed /\ pr.file_exists
       /\ pr.marker \in files[pr.cid]

\* C2: exactly once unless forced.  While no invocation has been forced, a
\* non-forced invocation with the host script present, started after a run of
\* the script for the same marker in the same container exited with 0, neither
\* copies nor runs the script.
C2_AtMostOnceUnforced ==
  \A p \in Procs :
    LET pr == proc[p]
    IN (~forcedSeen /\ pr.host_is_file /\ ~pr.force_post /\ pr.after_ok)
       => OpsOf(pr) \cap {"cp", "run"} = {}

\* C3: when the script exits with a nonzero status the invocation writes no
\* marker, the container's marker state stays as it was, and
\* run_post_script_if_needed returns to main without raising or exiting.
C3_FailedScriptNoMarker ==
  \A p \in Procs :
    LET pr == proc[p]
    IN (pr.rc # NoRc /\ pr.rc # 0)
       => /\ "write" \notin OpsOf(pr)
          /\ (pr.marker \in files[pr.cid]) = (pr.marker \in pr.files0)
          /\ Returned(pr)

C3_Witness ==
  \E p \in Procs :
    LET pr == proc[p]
    IN /\ pr.pc = "exited" /\ pr.cause = "attach"
       /\ pr.rc # NoRc /\ pr.rc # 0
       /\ pr.marker \notin files[pr.cid]

\* C4 as claimed: after an invocation in which the script exited nonzero (for
\* the same marker, in the same container), a non-forced invocation with the
\* host script present returns from provisioning only after it has copied and
\* run the script again.
C4_RetryAfterAnyFailure ==
  \A p \in Procs :
    LET pr == proc[p]
    IN (pr.host_is_file /\ ~pr.force_post /\ pr.after_fail /\ Returned(pr))
       => {"cp", "run"} \subseteq OpsOf(pr)

\* C4 amended: after an invocation in which the script exited nonzero, a
\* non-forced invocation whose marker check finds the marker absent returns
\* from provisioning only after it has copied and run the script again; and a
\* failing run leaves the marker as it found it, so a marker that was there
\* before a forced failing run still stops the next non-forced invocation.
C4_RetryWhenMarkerAbsent ==
  \A p \in Procs :
    LET pr == proc[p]
    IN /\ (pr.host_is_file /\ ~pr.force_post /\ pr.after_fail
             /\ "check" \in OpsOf(pr) /\ ~pr.existed /\ Returned(pr))
          => {"cp", "run"} \subseteq OpsOf(pr)
       /\ (pr.host_is_file /\ ~pr.force_post /\ pr.after_fail
             /\ "check" \in OpsOf(pr) /\ pr.existed /\ pr.file_exists)
          => OpsOf(pr) \cap {"cp", "run"} = {}

C4_Witness ==
  \E p \in Procs :
    LET pr == proc[p]
    IN /\ pr.pc = "exited" /\ pr.cause = "attach"
       /\ pr.host_is_file /\ ~pr.force_post /\ pr.after_fail
       /\ "check" \in OpsOf(pr) /\ ~pr.existed
       /\ {"cp", "run"} \subseteq OpsOf(pr)

\* C5: a failed setup never blocks entering the container.  In the auto-select
\* and in the explicit-index branch, once the script has exited nonzero the
\* program is on its way to the shell attachment, and when it has ended it has
\* attached the shell to the selected container and exited with the session's
\* status.
C5_FailedSetupStillAttaches ==
  \A p \in Procs :
    LET pr == proc[p]
    IN (pr.rc # NoRc /\ pr.rc # 0)
       => /\ pr.branch \in {"auto", "explicit"}
          /\ pr.pc \in {"shell_probe", "attach", "exited"}
          /\ pr.pc = "exited"
               => /\ <<"attach", pr.cid>> \in pr.ops
                  /\ pr.session_rc \in ShellRcs
                  /\ pr.status = pr.session_rc

C5_Witness ==
  \E p \in Procs :
    LET pr == proc[p]
    IN /\ pr.pc = "exited" /\ pr.branch = "explicit"
       /\ pr.rc # NoRc /\ pr.rc # 0
       /\ pr.status = 130 /\ <<"attach", pr.cid>> \in pr.ops

C5_WitnessAuto ==
  \E p \in Procs :
    LET pr == proc[p]
    IN /\ pr.pc = "exited" /\ pr.branch = "auto"
       /\ pr.rc # NoRc /\ pr.rc # 0
       /\ pr.status = 130 /\ <<"attach", pr.cid>> \in pr.ops

\* C6: copy failure is a hard stop.  When docker cp returns a nonzero status
\* the program has ended with that status, and the invocation has not run the
\* script, written the marker, probed for the shell or attached it.
C6_CopyFailureStops ==
  \A p \in Procs :
    LET pr == proc[p]
    IN (pr.cp_rc # NoRc /\ pr.cp_rc # 0)
       => /\ pr.pc = "exited"
          /\ pr.status = pr.cp_rc
          /\ OpsOf(pr) \cap {"run", "write", "shell_probe", "attach"} = {}
          /\ (pr.marker \in files[pr.cid]) = (pr.marker \in pr.files0)

C6_Witness ==
  \E p \in Procs :
    LET pr == proc[p]
    IN pr.pc = "exited" /\ pr.cp_rc = 125 /\ pr.status = 125 /\ "cp" \in OpsOf(pr)

\* C7: apart from a failed host-to-container copy (docker_cp_to), no backend
\* failure inside provisioning ends the program: once run_post_script_if_needed
\* has been entered, the program ends only in docker_cp_to or after the shell
\* attachment.
C7_OnlyCopyFailureIsFatal ==
  \A p \in Procs :
    LET pr == proc[p]
    IN (<<"post", pr.cid>> \in pr.ops /\ pr.pc = "exited")
       => pr.cause \in {"dirname", "cp", "attach"}

\* C8: forced re-provisioning.  With force set, the host script present and the
\* marker already in the container, the invocation makes no marker check, and
\* run_post_script_if_needed returns only after the script was copied and run
\* again.
C8_ForcedRerun ==
  \A p \in Procs :
    LET pr == proc[p]
    IN (pr.host_is_file /\ pr.force_post /\ pr.marker # NoPath /\ pr.existed)
       => /\ "check" \notin OpsOf(pr)
          /\ pr.pc \notin {"check"}
          /\ Returned(pr) => {"cp", "run"} \subseteq OpsOf(pr)

C8_Witness ==
  \E p \in Procs :
    LET pr == proc[p]
    IN /\ pr.pc = "exited" /\ pr.cause = "attach"
       /\ pr.host_is_file /\ pr.force_post /\ pr.existed /\ pr.after_ok
       /\ {"cp", "run"} \subseteq OpsOf(pr)

\* C9: a missing host script is a no-op.  When the host path is no regular
\* file, for either value of force, the invocation issues no backend operation
\* of provisioning, the container's files stay as they were, and
\* run_post_script_if_needed returns to main.
C9_MissingScriptNoOp ==
  \A p \in Procs :
    LET pr == proc[p]
    IN (<<"post", pr.cid>> \in pr.ops /\ ~pr.host_is_file)
       => /\ OpsOf(pr) \cap ProvisionOps = {}
          /\ files[pr.cid] = pr.files0
          /\ pr.marker = NoPath
          /\ Returned(pr)

C9_Witness ==
  \E p \in Procs :
    LET pr == proc[p]
    IN /\ pr.pc = "exited" /\ pr.cause = "attach"
       /\ <<"post", pr.cid>> \in pr.ops /\ ~pr.host_is_file /\ pr.force_post

\* C10: discovery errors never abort listing.  No invocation ends inside
\* list_devcontainers because the inspection of a container failed or returned
\* nothing.
C10_ListingNeverAborts ==
  \A p \in Procs : ~(proc[p].pc = "exited" /\ proc[p].cause = "inspect")

\* the four signals of C11, stated on the texts themselves
RECURSIVE Tokens(_, _)
\* the maximal runs of non-separator characters of s (cur: the run being read)
Tokens(s, cur) ==
  IF s = <<>> THEN {cur}
  ELSE IF Head(s) \in {".", "_", "-"} THEN {cur} \cup Tokens(Tail(s), <<>>)
  ELSE Tokens(Tail(s), Append(cur, Head(s)))

KeySignal(labels) ==
  \E k \in DOMAIN labels :
    \/ Len(k) >= 13 /\ lower(SubSeq(k, 1, 13)) = <<"d","e","v","c","o","n","t","a","i","n","e","r",".">>
    \/ <<"d","e","v","c","o","n","t","a","i","n","e","r">> \in Tokens(lower(k), <<>>)
    \/ <<"v","s","c","h">> \in Tokens(lower(k), <<>>)

ValueSignal(labels) ==
  \E k \in DOMAIN labels :
    \E i \in 1..Len(labels[k]) :
      /\ i + 11 <= Len(labels[k])
      /\ lower(SubSeq(labels[k], i, i + 11)) = <<"d","e","v","c","o","n","t","a","i","n","e","r">>

NameSignal(name) ==
  Len(name) >= 4 /\ lower(SubSeq(name, 1, 4)) = <<"v","s","c","-">>

EnvSignal(env) ==
  \E i \in 1..Len(env) :
    upper(strip(env[i])) = <<"D","E","V","C","O","N","T","A","I","N","E","R","=","T","R","U","E">>

\* C11: is_devcontainer(labels, name, env) is true exactly when a label key
\* matches a key pattern, or a label value contains "devcontainer" whatever
\* the case, or the name starts with "vsc-" whatever the case, or an env entry
\* trimmed and upper-cased is DEVCONTAINER=TRUE; it is false for empty labels,
\* a name not starting with vsc- and no matching env entry.
C11_ClassifierIsOrOfSignals ==
  (pure.fn = "is_devcontainer" /\ pure.done)
    => /\ pure.out = (\/ KeySignal(pure.labels) \/ ValueSignal(pure.labels)
                      \/ NameSignal(pure.name) \/ EnvSignal(pure.env))
       /\ (DOMAIN pure.labels = {} /\ ~NameSignal(pure.name) /\ ~EnvSignal(pure.env))
            => ~pure.out

C11_Witness ==
  /\ pure.fn = "is_devcontainer" /\ pure.done /\ pure.out
  /\ DOMAIN pure.labels = {} /\ ~NameSignal(pure.name) /\ EnvSignal(pure.env)

\* what int() makes of each selection text that is drawn
IntOf == [sel \in Selections |-> int(sel.text)]

\* main has read the selection and taken one of its branches or exits
Decided(pr) ==
  pr.branch # None \/ (pr.pc = "exited" /\ pr.cause \in {"list", "nocand", "nan", "range"})

\* every backend call of the invocation was addressed to its container
OneTarget(pr) == \A o \in pr.ops : o[2] = pr.cid

\* the invocation ended by the shell session, with that session's status
EndsWithSession(pr) ==
  (pr.pc = "exited" /\ pr.cause = "attach")
    => <<"attach", pr.cid>> \in pr.ops /\ pr.status = pr.session_rc

\* C12: with no selection argument and exactly one candidate, the program
\* takes that candidate: it provisions it unless --skip-post is set, attaches
\* the shell to the same container only after provisioning has returned, and
\* ends with the shell session's status; the only other endings are the
\* aborts of provisioning itself.
C12_AutoSelect ==
  \A p \in Procs :
    LET pr == proc[p]
    IN (Decided(pr) /\ pr.selection.is_none /\ Len(pr.devcs) = 1)
         => /\ pr.branch = "auto"
            /\ pr.cid = pr.devcs[1]
            /\ OneTarget(pr)
            /\ pr.skip_post => "post" \notin OpsOf(pr)
            /\ ~pr.skip_post => (pr.pc = "post" \/ "post" \in OpsOf(pr))
            /\ ("attach" \in OpsOf(pr) /\ ~pr.skip_post) => Returned(pr)
            /\ pr.pc = "exited" => pr.cause \in {"attach", "cp", "home", "dirname"}
            /\ (pr.pc = "exited" /\ pr.skip_post) => pr.cause = "attach"
            /\ EndsWithSession(pr)

C12_Witness ==
  LET pr == proc[MainProc]
  IN /\ pr.branch = "auto" /\ ~pr.skip_post /\ "run" \in OpsOf(pr)
     /\ pr.pc = "exited" /\ pr.cause = "attach" /\ pr.status = 130

\* C13: with no selection argument and zero or several candidates, the
\* program only prints the list: it ends with status 0, having made no
\* backend call after the listing (no provisioning, no shell).
C13_ListingOnly ==
  \A p \in Procs :
    LET pr == proc[p]
    IN (Decided(pr) /\ pr.selection.is_none /\ Len(pr.devcs) # 1)
         => /\ pr.pc = "exited" /\ pr.cause = "list" /\ pr.status = 0
            /\ pr.branch = None /\ pr.cid = NoContainer
            /\ pr.ops = {}

C13_Witness ==
  LET pr == proc[MainProc]
  IN /\ pr.pc = "exited" /\ pr.cause = "list" /\ pr.selection.is_none
     /\ Len(pr.devcs) = 2

C13_WitnessNone ==
  LET pr == proc[MainProc]
  IN /\ pr.pc = "exited" /\ pr.cause = "list" /\ pr.selection.is_none
     /\ pr.devcs = <<>>

\* the invocation stopped at an error exit of the selection, having chosen no
\* container and made no backend call after the listing
ErrorExit(pr, status) ==
  /\ pr.pc = "exited" /\ pr.status = status
  /\ pr.branch = None /\ pr.cid = NoContainer
  /\ pr.ops = {}

\* C14: with an explicit selection, the program ends with status 1 when there
\* is no candidate, and with status 3 when there are candidates and the
\* selection is an integer outside 1..count (0 and negatives included); at
\* those exits nothing was provisioned and no shell was attached.
C14_SelectionErrors ==
  \A p \in Procs :
    LET pr == proc[p]
        idx == IntOf[pr.selection]
    IN (Decided(pr) /\ ~pr.selection.is_none)
         => /\ pr.devcs = <<>> => ErrorExit(pr, 1)
            /\ (/\ pr.devcs # <<>>
                /\ ~idx.ValueError
                /\ idx.value \notin 1..Len(pr.devcs)) => ErrorExit(pr, 3)

C14_Witness ==
  LET pr == proc[MainProc]
  IN /\ pr.pc = "exited" /\ pr.status = 3 /\ pr.devcs # <<>>
     /\ pr.selection = Typed(<<"0">>)

C14_WitnessNegative ==
  LET pr == proc[MainProc]
  IN /\ pr.pc = "exited" /\ pr.status = 3 /\ Len(pr.devcs) = 2
     /\ pr.selection = Typed(<<"-","1">>)

C14_WitnessNoCandidate ==
  LET pr == proc[MainProc]
  IN /\ pr.pc = "exited" /\ pr.status = 1 /\ pr.cause = "nocand"
     /\ pr.selection = Typed(<<" ","3">>)

\* the text is a decimal integer: optional blanks, an optional sign, digits
IsIntegerText(text) ==
  LET t == strip(text)
      body == IF t # <<>> /\ Head(t) \in {"+", "-"} THEN Tail(t) ELSE t
  IN body # <<>> /\ \A i \in 1..Len(body) : IsDigit(body[i])

\* the selections drawn whose text is no integer
NotIntegers == { sel \in Selections : ~sel.is_none /\ ~IsIntegerText(sel.text) }

\* C15 as stated: an explicit selection that is no integer always ends the
\* program with status 2, whatever the number of candidates.
C15_NotANumberAlways2 ==
  \A p \in Procs :
    LET pr == proc[p]
    IN (Decided(pr) /\ pr.selection \in NotIntegers)
         => pr.pc = "exited" /\ pr.status = 2

\* C15 (amended): an explicit selection that is no integer ends the program
\* with status 2 when there is at least one candidate, for every such number
\* of candidates; with no candidate the program ends with status 1 before the
\* text is parsed. Nothing is provisioned and no shell attached either way.
C15_NotANumberWithCandidates ==
  \A p \in Procs :
    LET pr == proc[p]
    IN (Decided(pr) /\ pr.selection \in NotIntegers)
         => /\ pr.devcs # <<>> => ErrorExit(pr, 2)
            /\ pr.devcs = <<>> => ErrorExit(pr, 1)

C15_Witness ==
  LET pr == proc[MainProc]
  IN /\ pr.pc = "exited" /\ pr.status = 2 /\ Len(pr.devcs) = 2
     /\ pr.selection = Typed(<<"a","b","c">>)

C15_WitnessNoCandidate ==
  LET pr == proc[MainProc]
  IN /\ pr.pc = "exited" /\ pr.status = 1 /\ pr.devcs = <<>>
     /\ pr.selection = Typed(<<"a","b","c">>)

\* the containers that show one of the four signals of classification
Passing ==
  { c \in Containers :
      \/ KeySignal(Meta(c).labels) \/ ValueSignal(Meta(c).labels)
      \/ NameSignal(Meta(c).name) \/ EnvSignal(Meta(c).env) }

RECURSIVE Classified(_)
\* the containers of a listing that pass classification, in the listing's order
Classified(rows) ==
  IF rows = <<>> THEN <<>>
  ELSE IF Head(rows) \in Passing THEN <<Head(rows)>> \o Classified(Tail(rows))
  ELSE Classified(Tail(rows))

\* what holds of an invocation in the explicit branch
ExplicitTarget(pr) ==
  LET idx == IntOf[pr.selection]
      k == idx.value
  IN /\ ~pr.selection.is_none /\ ~idx.ValueError
     /\ k \in 1..Len(pr.devcs)
     /\ pr.cid = pr.devcs[k]
     /\ OneTarget(pr)
     /\ ("attach" \in OpsOf(pr) /\ ~pr.skip_post) => Returned(pr)
     /\ pr.pc = "exited" => pr.cause \in {"attach", "cp", "home", "dirname"}
     /\ EndsWithSession(pr)

\* C16: for a selection integer k with 1 <= k <= count, the container that is
\* provisioned and attached is the k-th, in the backend's listing order, of the
\* containers that pass classification; every backend call of the invocation
\* is addressed to that container, and an invocation ended by the shell has
\* the shell session's status. The candidates at the end of the listing are
\* the classified rows in order, they stay as they are afterwards, and the
\* selection step takes the k-th of them.
C16_ExplicitTarget ==
  /\ [](\A p \in Procs :
         /\ proc[p].pc = "select" => proc[p].devcs = Classified(proc[p].rows)
         /\ proc[p].branch = "explicit" => ExplicitTarget(proc[p]))
  /\ [][\A p \in Procs :
         /\ (proc[p].pc = "select" /\ proc'[p].branch = "explicit")
              => LET passing == Classified(proc[p].rows)
                     k == IntOf[proc'[p].selection].value
                 IN /\ proc'[p].devcs = passing
                    /\ k \in 1..Len(passing)
                    /\ proc'[p].cid = passing[k]
         /\ (proc[p].branch = "explicit" /\ proc'[p].pc # "ps")
              => /\ proc'[p].devcs = proc[p].devcs
                 /\ proc'[p].cid = proc[p].cid
                 /\ proc'[p].selection = proc[p].selection]_vars

C16_Witness ==
  LET pr == proc[MainProc]
  IN /\ pr.branch = "explicit" /\ pr.selection = Typed(<<"2">>)
     /\ pr.cid = 2 /\ pr.devcs = <<1, 2>>
     /\ <<"cp", 2>> \in pr.ops /\ <<"run", 2>> \in pr.ops
     /\ pr.pc = "exited" /\ pr.cause = "attach" /\ pr.status = 130

\* the words the command is meant to be, with the path s as one argument
Meant(kind, s) ==
  CASE kind = "test"    -> <<Word(<<"[">>), Word(<<"-","f">>), Word(s), Word(<<"]">>)>>
    [] kind = "dirname" -> <<Word(<<"d","i","r","n","a","m","e">>), Word(s)>>
    [] kind = "mkdir"   -> <<Word(<<"m","k","d","i","r">>), Word(<<"-","p">>), Word(s)>>
    [] kind = "run"     -> <<Word(<<"c","h","m","o","d">>), Word(<<"+","x">>), Word(s), Operator(<<"&", "&">>), Word(s)>>
    [] kind = "write"   -> <<Word(<<":">>), Operator(<<">">>), Word(s)>>
    [] OTHER            -> <<Word(s)>>

\* C17: for every string s, with single quotes or without, a POSIX shell reads
\* sh_quote(s) as one word that is exactly s, with no splitting and no
\* expansion; so the marker test, dirname, mkdir, chmod-and-run and marker
\* write commands are read as their fixed words and operators with the path
\* unchanged in its place.
C17_QuoteRoundTrip ==
  (pure.fn = "sh_quote" /\ pure.pc = "parsed")
    => /\ pure.words = Meant(pure.kind, pure.s)
       /\ \A i \in 1..Len(pure.words) :
            \A j \in 1..Len(pure.words[i].text) : pure.words[i].text[j] # Expansion

C17_Witness ==
  /\ pure.fn = "sh_quote" /\ pure.pc = "parsed" /\ pure.kind = "run"
  /\ pure.s = <<"a", "'", " ">>
  /\ pure.words = Meant("run", pure.s)

C17_WitnessWord ==
  /\ pure.fn = "sh_quote" /\ pure.pc = "parsed" /\ pure.kind = "word"
  /\ pure.s = <<"'", "$", "'">>
  /\ pure.words = <<Word(pure.s)>>

\* the path is that of a marker, whatever the home
IsMarkerPath(path) == \E ms \in MarkerSpecs : path[2] = ms.rest

\* the marker path a marker argument stands for in container c
ResolvedMarker(c, ms) ==
  IF ms.tilde THEN <<IF Meta(c).home = "" THEN "/root" ELSE Meta(c).home, ms.rest>>
              ELSE <<"", ms.rest>>

StagedScript(c) == <<IF Meta(c).home = "" THEN "/root" ELSE Meta(c).home, "/.dc-postcommand.sh">>

C19_FlagNotLock ==
  \A p \in Procs :
    LET pr == proc[p]
    IN (~pr.force_post /\ "check" \in OpsOf(pr))
         => /\ (pr.pc = "probe" \/ "probe" \in OpsOf(pr)) = ~pr.file_exists
            /\ pr.file_exists => pr.existed
            /\ "run" \in OpsOf(pr) => ~pr.file_exists

\* both invocations have tested the marker of the same container, found none,
\* and run the script to a zero status; neither has written the marker yet
C19_Witness ==
  \A p \in Procs :
    LET pr == proc[p]
    IN /\ pr.pc = "write" /\ pr.cid = 1 /\ ~pr.force_post
       /\ pr.marker = ResolvedMarker(1, DefaultMarker)
       /\ {<<"check", 1>>, <<"cp", 1>>, <<"run", 1>>} \subseteq pr.ops
       /\ ~pr.existed /\ ~pr.file_exists /\ pr.rc = 0
       /\ pr.marker \notin files[1]

\* C20: with --skip-post set, in the automatic and in the explicit branch,
\* main makes no provisioning call on the selected container (no home query,
\* marker test, probe for the script, copy, run or marker write), the
\* container's files, the marker among them, are as they were at selection,
\* and main goes straight to the shell, which is the only way it ends.
C20_SkipFrame ==
  \A p \in Procs :
    LET pr == proc[p]
    IN (pr.branch \in {"auto", "explicit"} /\ pr.skip_post)
         => /\ OpsOf(pr) \cap (ProvisionOps \cup {"post"}) = {}
            /\ OpsOf(pr) \subseteq {"shell_probe", "attach"}
            /\ OneTarget(pr)
            /\ files[pr.cid] = pr.files0
            /\ pr.pc \in {"shell_probe", "attach", "exited"}
            /\ pr.pc = "exited" => pr.cause = "attach"
            /\ EndsWithSession(pr)

C20_Witness ==
  LET pr == proc[MainProc]
  IN /\ pr.branch = "explicit" /\ pr.skip_post
     /\ pr.pc = "exited" /\ pr.cause = "attach" /\ <<"attach", pr.cid>> \in pr.ops
     /\ ResolvedMarker(pr.cid, DefaultMarker) \in files[pr.cid]

C20_WitnessAuto ==
  LET pr == proc[MainProc]
  IN /\ pr.branch = "auto" /\ pr.skip_post
     /\ pr.pc = "exited" /\ pr.cause = "attach" /\ <<"attach", pr.cid>> \in pr.ops
     /\ ResolvedMarker(pr.cid, DefaultMarker) \notin files[pr.cid]
     /\ StagedScript(pr.cid) \in files[pr.cid]

====
